---- MODULE Spec2Model ----
(***************************************************************************)
(* The "http" plugin of conifer (src/main.go): the two OnResolve hooks,    *)
(* the OnLoad hook and the HTTP handler that runs one build per request.   *)
(* Specifiers are strings; the net/url calls the hooks make (url.Parse,    *)
(* URL.ResolveReference, URL.String) are computed character by character.  *)
(* Input alphabet: printable ASCII; userinfo ("@") and bracketed IP        *)
(* literals are not modelled. The host engine (esbuild) appears as the     *)
(* actions that call the hooks and resolve and load file modules itself.   *)
(***************************************************************************)
EXTENDS Integers, Sequences, FiniteSets, TLC

(* ------------------------------ strings ------------------------------- *)

Ch(s, i) == SubSeq(s, i, i)

HasPrefix(s, p) == Len(s) >= Len(p) /\ SubSeq(s, 1, Len(p)) = p

HasSuffix(s, p) == Len(s) >= Len(p) /\ SubSeq(s, Len(s) - Len(p) + 1, Len(s)) = p

\* strings.Index for a one-character needle: the first position, 0 when absent
RECURSIVE IndexFrom(_, _, _)
IndexFrom(s, c, i) ==
    IF i > Len(s) THEN 0
    ELSE IF Ch(s, i) = c THEN i
    ELSE IndexFrom(s, c, i + 1)

Index(s, c) == IndexFrom(s, c, 1)

\* strings.LastIndex for a one-character needle, 0 when absent
RECURSIVE LastIndexFrom(_, _, _)
LastIndexFrom(s, c, i) ==
    IF i < 1 THEN 0
    ELSE IF Ch(s, i) = c THEN i
    ELSE LastIndexFrom(s, c, i - 1)

LastIndex(s, c) == LastIndexFrom(s, c, Len(s))

Contains(s, c) == Index(s, c) # 0

Count(s, c) == Cardinality({i \in 1..Len(s) : Ch(s, i) = c})

\* strings.Cut
Cut(s, c) ==
    LET i == Index(s, c) IN
    IF i = 0 THEN [before |-> s, after |-> "", found |-> FALSE]
    ELSE [before |-> SubSeq(s, 1, i - 1), after |-> SubSeq(s, i + 1, Len(s)), found |-> TRUE]

LowerAlpha == "abcdefghijklmnopqrstuvwxyz"
UpperAlpha == "ABCDEFGHIJKLMNOPQRSTUVWXYZ"
Digits == "0123456789"
HexUpper == "0123456789ABCDEF"
HexLower == "0123456789abcdef"
\* the printable ASCII bytes in order: 0x20..0x21, 0x23..0x5B, 0x5D..0x5F and
\* 0x61..0x7E (the double quote 0x22, the backslash 0x5C and the grave accent
\* 0x60 are kept as byte tokens: all three are escaped in a path or fragment)
AsciiLo == " !"
AsciiMid == "#$%&'()*+,-./0123456789:;<=>?@ABCDEFGHIJKLMNOPQRSTUVWXYZ["
AsciiHi == "]^_"
AsciiTop == "abcdefghijklmnopqrstuvwxyz{|}~"

IsLower(c) == Contains(LowerAlpha, c)
IsUpper(c) == Contains(UpperAlpha, c)
IsDigit(c) == Contains(Digits, c)
IsAlnum(c) == IsLower(c) \/ IsUpper(c) \/ IsDigit(c)
IsHex(c) == Contains(HexUpper, c) \/ Contains(HexLower, c)

\* strings.ToLower on ASCII
RECURSIVE ToLower(_)
ToLower(s) ==
    IF s = "" THEN ""
    ELSE LET c == Ch(s, 1) IN
         (IF IsUpper(c) THEN Ch(LowerAlpha, Index(UpperAlpha, c)) ELSE c)
            \o ToLower(SubSeq(s, 2, Len(s)))

(* --------------------- net/url: escaping (url.go) --------------------- *)

HexVal(h) == IF Contains(HexUpper, h) THEN Index(HexUpper, h) - 1 ELSE Index(HexLower, h) - 1

\* the byte value of a printable character
ByteOf(c) ==
    IF Contains(AsciiLo, c) THEN 31 + Index(AsciiLo, c)
    ELSE IF Contains(AsciiMid, c) THEN 34 + Index(AsciiMid, c)
    ELSE IF Contains(AsciiHi, c) THEN 92 + Index(AsciiHi, c)
    ELSE 96 + Index(AsciiTop, c)

\* whether byte v is one of the printable characters above
IsPrintable(v) == v \in (32..33) \cup (35..91) \cup (93..95) \cup (97..126)

CharOf(v) ==
    IF v <= 33 THEN Ch(AsciiLo, v - 31)
    ELSE IF v <= 91 THEN Ch(AsciiMid, v - 34)
    ELSE IF v <= 95 THEN Ch(AsciiHi, v - 92)
    ELSE Ch(AsciiTop, v - 96)

HexOf(v) == Ch(HexUpper, (v \div 16) + 1) \o Ch(HexUpper, (v % 16) + 1)

\* url.shouldEscape, for the modes Parse and String use: "host", "path", "fragment"
ShouldEscape(c, mode) ==
    IF IsAlnum(c) THEN FALSE
    ELSE IF mode = "host" /\ Contains("!$&'()*+,;=:[]<>", c) THEN FALSE
    ELSE IF Contains("-_.~", c) THEN FALSE
    ELSE IF Contains("$&+,/:;=?@", c) /\ mode = "path" THEN c = "?"
    ELSE IF Contains("$&+,/:;=?@", c) /\ mode = "fragment" THEN FALSE
    ELSE IF mode = "fragment" /\ Contains("!()*", c) THEN FALSE
    ELSE TRUE

\* the validation pass of url.unescape: every "%" starts a "%XX" escape; in a
\* host only "%25" and escapes of non-ASCII bytes are allowed, and no
\* character that would need escaping
RECURSIVE UnescapeOK(_, _, _)
UnescapeOK(s, mode, i) ==
    IF i > Len(s) THEN TRUE
    ELSE IF Ch(s, i) = "%" THEN
        /\ i + 2 <= Len(s)
        /\ IsHex(Ch(s, i + 1))
        /\ IsHex(Ch(s, i + 2))
        /\ ~(mode = "host" /\ HexVal(Ch(s, i + 1)) < 8 /\ SubSeq(s, i, i + 2) # "%25")
        /\ UnescapeOK(s, mode, i + 3)
    ELSE
        /\ ~(mode = "host" /\ ShouldEscape(Ch(s, i), "host"))
        /\ UnescapeOK(s, mode, i + 1)

\* the decoding pass of url.unescape: the decoded bytes, one token a byte: a
\* printable byte is its character, any other byte is "%XX" in upper-case hex
RECURSIVE UnescapeBytes(_, _)
UnescapeBytes(s, i) ==
    IF i > Len(s) THEN << >>
    ELSE IF Ch(s, i) = "%" THEN
        LET v == 16 * HexVal(Ch(s, i + 1)) + HexVal(Ch(s, i + 2)) IN
        <<IF IsPrintable(v) THEN CharOf(v) ELSE "%" \o HexOf(v)>>
            \o UnescapeBytes(s, i + 3)
    ELSE <<Ch(s, i)>> \o UnescapeBytes(s, i + 1)

\* url.escape over decoded bytes
RECURSIVE Escape(_, _)
Escape(bytes, mode) ==
    IF bytes = << >> THEN ""
    ELSE LET b == Head(bytes) IN
         (IF Len(b) = 1 /\ ShouldEscape(b, mode)
            THEN "%" \o HexOf(ByteOf(b)) ELSE b)
            \o Escape(Tail(bytes), mode)

\* url.validEncoded
ValidEncoded(s, mode) ==
    \A i \in 1..Len(s) :
        \/ Contains("!$&'()*+,;=:@[]%", Ch(s, i))
        \/ ~ShouldEscape(Ch(s, i), mode)

\* URL.EscapedPath / URL.EscapedFragment of a field set from the raw text p by
\* setPath / setFragment: the raw text when it is a valid encoding, else the
\* default escaping of the decoded bytes
Escaped(p, mode) ==
    IF ValidEncoded(p, mode) THEN p ELSE Escape(UnescapeBytes(p, 1), mode)

(* ------------------ net/url: Parse, ResolveReference ------------------ *)

\* the zero url.URL; RawPath is the text given to setPath (URL.Path is its
\* decoding, empty exactly when RawPath is), Fragment the text given to
\* setFragment, Host the decoded host
EmptyURL ==
    [Scheme |-> "", Opaque |-> "", Host |-> "", RawPath |-> "", OmitHost |-> FALSE,
     ForceQuery |-> FALSE, RawQuery |-> "", Fragment |-> ""]

ParseError == [err |-> TRUE, url |-> EmptyURL]

\* url.getScheme: [err, scheme, rest]
RECURSIVE getSchemeFrom(_, _)
getSchemeFrom(rawURL, i) ==
    IF i > Len(rawURL) THEN [err |-> FALSE, scheme |-> "", rest |-> rawURL]
    ELSE LET c == Ch(rawURL, i) IN
         IF IsLower(c) \/ IsUpper(c) THEN getSchemeFrom(rawURL, i + 1)
         ELSE IF IsDigit(c) \/ c = "+" \/ c = "-" \/ c = "." THEN
            IF i = 1 THEN [err |-> FALSE, scheme |-> "", rest |-> rawURL]
            ELSE getSchemeFrom(rawURL, i + 1)
         ELSE IF c = ":" THEN
            IF i = 1 THEN [err |-> TRUE, scheme |-> "", rest |-> ""]
            ELSE [err |-> FALSE, scheme |-> SubSeq(rawURL, 1, i - 1),
                  rest |-> SubSeq(rawURL, i + 1, Len(rawURL))]
         ELSE [err |-> FALSE, scheme |-> "", rest |-> rawURL]

getScheme(rawURL) == getSchemeFrom(rawURL, 1)

\* url.validOptionalPort
validOptionalPort(port) ==
    \/ port = ""
    \/ /\ Ch(port, 1) = ":"
       /\ \A i \in 2..Len(port) : IsDigit(Ch(port, i))

\* url.parseHost (no userinfo, no IP literal): whether the host is accepted
parseHostOK(host) ==
    /\ LET i == LastIndex(host, ":") IN
       i # 0 => validOptionalPort(SubSeq(host, i, Len(host)))
    /\ UnescapeOK(host, "host", 1)

\* url.stringContainsCTLByte: a byte below 0x20 or 0x7F, that is, a character
\* that is none of the printable ones
stringContainsCTLByte(s) == \E i \in 1..Len(s) : Ch(s, i) \notin
    ({Ch(AsciiLo, k) : k \in 1..Len(AsciiLo)} \cup {Ch(AsciiMid, k) : k \in 1..Len(AsciiMid)}
     \cup {Ch(AsciiHi, k) : k \in 1..Len(AsciiHi)} \cup {Ch(AsciiTop, k) : k \in 1..Len(AsciiTop)})

\* URL.setPath at the end of url.parse: the path must unescape
setPath(u, p) ==
    IF ~UnescapeOK(p, "path", 1) THEN ParseError
    ELSE [err |-> FALSE, url |-> [u EXCEPT !.RawPath = p]]

\* url.parse, the authority: parseAuthority, then the path that follows
parseHostPath(u, authority, p) ==
    IF ~parseHostOK(authority) THEN ParseError
    ELSE setPath([u EXCEPT !.Host = Escape(UnescapeBytes(authority, 1), "host")], p)

\* url.parse, the text after "//": the authority ends at the first "/"
parseAuthorityAt(u, after, k) ==
    IF k = 0 THEN parseHostPath(u, after, "")
    ELSE parseHostPath(u, SubSeq(after, 1, k - 1), SubSeq(after, k, Len(after)))

\* url.parse, after the scheme and the query are split off: an opaque URL, a
\* colon in the first segment, an authority, a path
parseRest(u, rest) ==
    IF ~HasPrefix(rest, "/") /\ u.Scheme # "" THEN
        [err |-> FALSE, url |-> [u EXCEPT !.Opaque = rest]]
    ELSE IF ~HasPrefix(rest, "/") /\ Contains(Cut(rest, "/").before, ":") THEN ParseError
    ELSE IF (u.Scheme # "" \/ ~HasPrefix(rest, "///")) /\ HasPrefix(rest, "//") THEN
        parseAuthorityAt(u, SubSeq(rest, 3, Len(rest)), Index(SubSeq(rest, 3, Len(rest)), "/"))
    ELSE setPath([u EXCEPT !.OmitHost = u.Scheme # "" /\ HasPrefix(rest, "/")], rest)

\* url.parse, the query: a lone trailing "?" forces an empty query, else the
\* text after the first "?" is the query
parseQuery(scheme, rest) ==
    IF HasSuffix(rest, "?") /\ Count(rest, "?") = 1 THEN
        parseRest([EmptyURL EXCEPT !.Scheme = scheme, !.ForceQuery = TRUE],
                  SubSeq(rest, 1, Len(rest) - 1))
    ELSE parseRest([EmptyURL EXCEPT !.Scheme = scheme, !.RawQuery = Cut(rest, "?").after],
                   Cut(rest, "?").before)

\* url.parse, the scheme, lower-cased
parseScheme(gs) ==
    IF gs.err THEN ParseError ELSE parseQuery(ToLower(gs.scheme), gs.rest)

\* url.parse(rawURL, viaRequest = false), after Parse has cut the fragment off
parse(rawURL) ==
    IF stringContainsCTLByte(rawURL) THEN ParseError
    ELSE IF rawURL = "*" THEN [err |-> FALSE, url |-> [EmptyURL EXCEPT !.RawPath = "*"]]
    ELSE parseScheme(getScheme(rawURL))

\* URL.setFragment after url.parse
setFragment(r, frag) ==
    IF r.err THEN ParseError
    ELSE IF frag = "" THEN r
    ELSE IF ~UnescapeOK(frag, "fragment", 1) THEN ParseError
    ELSE [err |-> FALSE, url |-> [r.url EXCEPT !.Fragment = frag]]

\* url.Parse: cut "#frag" off, parse the rest, then setFragment
parseCut(cf) == setFragment(parse(cf.before), cf.after)

Parse(rawURL) == parseCut(Cut(rawURL, "#"))

EscapedPath(u) == Escaped(u.RawPath, "path")

\* the element loop of url.resolvePath: dst is the text written after the
\* leading "/", elem the last element seen
RECURSIVE resolveElems(_, _, _, _)
resolveElems(remaining, found, dst, st) ==
    IF ~found THEN [dst |-> dst, elem |-> st.elem]
    ELSE
    LET c == Cut(remaining, "/")
        elem == c.before
    IN
    IF elem = "." THEN
        resolveElems(c.after, c.found, dst, [first |-> FALSE, elem |-> elem])
    ELSE IF elem = ".." THEN
        LET index == LastIndex(dst, "/") IN
        IF index = 0
        THEN resolveElems(c.after, c.found, "", [first |-> TRUE, elem |-> elem])
        ELSE resolveElems(c.after, c.found, SubSeq(dst, 1, index - 1),
                          [first |-> st.first, elem |-> elem])
    ELSE
        resolveElems(c.after, c.found,
                     dst \o (IF st.first THEN "" ELSE "/") \o elem,
                     [first |-> FALSE, elem |-> elem])

\* the end of url.resolvePath: an initial "/" was written, and two are not
\* wanted
trimRoot(r) == IF Len(r) > 1 /\ Ch(r, 2) = "/" THEN SubSeq(r, 2, Len(r)) ELSE r

\* a final "." or ".." leaves a trailing "/"
finishPath(out) ==
    trimRoot("/" \o out.dst \o (IF out.elem = "." \/ out.elem = ".." THEN "/" ELSE ""))

cleanPath(full) ==
    IF full = "" THEN ""
    ELSE finishPath(resolveElems(full, TRUE, "", [first |-> TRUE, elem |-> ""]))

\* SubSeq(base, 1, LastIndex(base, "/")): base[:i+1] for i the last "/"
dirOf(base) == SubSeq(base, 1, LastIndex(base, "/"))

\* a slip: a bare relative reference is merged against the parent of the
\* base's directory
resolvePathFromParent(base, ref) ==
    IF ref = "" THEN cleanPath(base)
    ELSE IF Ch(ref, 1) = "/" THEN cleanPath(ref)
    ELSE IF HasPrefix(ref, ".") THEN cleanPath(dirOf(base) \o ref)
    ELSE cleanPath(dirOf(SubSeq(base, 1, LastIndex(base, "/") - 1)) \o ref)

\* url.resolvePath
resolvePath(base, ref) ==
    IF ref = "" THEN cleanPath(base)
    ELSE IF Ch(ref, 1) # "/" THEN cleanPath(dirOf(base) \o ref)
    ELSE cleanPath(ref)

\* a slip: the reference's path is appended to the base's directory and the dot
\* segments are left in
ResolveReferenceKeepsDots(u, ref) ==
    IF ref.Scheme # "" \/ ref.Host # "" \/ ref.Opaque # ""
    THEN [ref EXCEPT !.Scheme = IF ref.Scheme = "" THEN u.Scheme ELSE ref.Scheme]
    ELSE [ref EXCEPT !.Scheme = u.Scheme, !.Host = u.Host,
                     !.RawPath = IF HasPrefix(ref.RawPath, "/") THEN ref.RawPath
                                 ELSE SubSeq(u.RawPath, 1, LastIndex(u.RawPath, "/"))
                                        \o ref.RawPath]

\* URL.ResolveReference (no userinfo)
ResolveReference(u, ref) ==
    LET url0 == [ref EXCEPT !.Scheme = IF ref.Scheme = "" THEN u.Scheme ELSE ref.Scheme]
        inherit == ref.RawPath = "" /\ ~ref.ForceQuery /\ ref.RawQuery = ""
        url1 == [url0 EXCEPT
                    !.RawQuery = IF inherit THEN u.RawQuery ELSE ref.RawQuery,
                    !.Fragment = IF inherit /\ ref.Fragment = "" THEN u.Fragment ELSE ref.Fragment]
    IN
    IF ref.Scheme # "" \/ ref.Host # "" THEN
        [url0 EXCEPT !.RawPath = resolvePath(EscapedPath(ref), "")]
    ELSE IF ref.Opaque # "" THEN
        [url0 EXCEPT !.Host = "", !.RawPath = ""]
    ELSE IF ref.RawPath = "" /\ u.Opaque # "" THEN
        [url1 EXCEPT !.Opaque = u.Opaque, !.Host = "", !.RawPath = ""]
    ELSE
        [url1 EXCEPT !.Host = u.Host,
                     !.RawPath = resolvePath(EscapedPath(u), EscapedPath(ref))]

\* URL.String
String(u) ==
    LET path == EscapedPath(u)
        head == (IF u.Scheme # "" THEN u.Scheme \o ":" ELSE "")
                \o (IF (u.Scheme # "" \/ u.Host # "") /\ ~(u.OmitHost /\ u.Host = "")
                    THEN (IF u.Host # "" \/ u.RawPath # "" THEN "//" ELSE "")
                         \o Escape(UnescapeBytes(u.Host, 1), "host")
                    ELSE "")
                \o (IF path # "" /\ Ch(path, 1) # "/" /\ u.Host # "" THEN "/" ELSE "")
    IN
    (IF u.Opaque # "" THEN u.Scheme \o (IF u.Scheme # "" THEN ":" ELSE "") \o u.Opaque
     ELSE head
          \o (IF head = "" /\ Contains(Cut(path, "/").before, ":") THEN "./" ELSE "")
          \o path)
    \o (IF u.ForceQuery \/ u.RawQuery # "" THEN "?" \o u.RawQuery ELSE "")
    \o (IF u.Fragment # "" THEN "#" \o Escaped(u.Fragment, "fragment") ELSE "")

(* ------------- RFC 3986 section 5: reference resolution --------------- *)
(* Written from the RFC, for comparison with what the plugin returns.      *)

\* the first position in s of a character of the set cs, 0 when there is none
RECURSIVE IndexAny(_, _, _)
IndexAny(s, cs, i) ==
    IF i > Len(s) THEN 0
    ELSE IF Ch(s, i) \in cs THEN i
    ELSE IndexAny(s, cs, i + 1)

\* s up to the first character of cs, and s from that character on
UpTo(s, cs) ==
    LET i == IndexAny(s, cs, 1) IN IF i = 0 THEN s ELSE SubSeq(s, 1, i - 1)

From(s, cs) ==
    LET i == IndexAny(s, cs, 1) IN IF i = 0 THEN "" ELSE SubSeq(s, i, Len(s))

\* Appendix B, the fragment: rest starts with "#" or is empty
RfcSplitFragment(c, rest) ==
    [c EXCEPT !.hasFragment = HasPrefix(rest, "#"), !.fragment = SubSeq(rest, 2, Len(rest))]

\* Appendix B, the query: rest starts with "?", with "#" or is empty
RfcSplitQuery(c, rest) ==
    IF HasPrefix(rest, "?")
    THEN RfcSplitFragment([c EXCEPT !.hasQuery = TRUE,
                                    !.query = UpTo(SubSeq(rest, 2, Len(rest)), {"#"})],
                          From(rest, {"#"}))
    ELSE RfcSplitFragment(c, rest)

\* Appendix B, the path: up to the first "?" or "#"
RfcSplitPath(c, rest) ==
    RfcSplitQuery([c EXCEPT !.path = UpTo(rest, {"?", "#"})], From(rest, {"?", "#"}))

\* Appendix B, the authority: after "//", up to the first "/", "?" or "#"
RfcSplitAuthority(c, rest) ==
    IF HasPrefix(rest, "//")
    THEN RfcSplitPath([c EXCEPT !.hasAuth = TRUE,
                                !.authority = UpTo(SubSeq(rest, 3, Len(rest)), {"/", "?", "#"})],
                      From(SubSeq(rest, 3, Len(rest)), {"/", "?", "#"}))
    ELSE RfcSplitPath(c, rest)

RfcNoComponents ==
    [hasScheme |-> FALSE, scheme |-> "", hasAuth |-> FALSE, authority |-> "", path |-> "",
     hasQuery |-> FALSE, query |-> "", hasFragment |-> FALSE, fragment |-> ""]

\* Appendix B, the scheme: a non-empty text before a ":" that comes before any
\* "/", "?" or "#"
RfcSplitScheme(s, i) ==
    IF i > 1 /\ Ch(s, i) = ":"
    THEN RfcSplitAuthority([RfcNoComponents EXCEPT !.hasScheme = TRUE,
                                                   !.scheme = SubSeq(s, 1, i - 1)],
                           SubSeq(s, i + 1, Len(s)))
    ELSE RfcSplitAuthority(RfcNoComponents, s)

\* Appendix B: the five components of a reference, each with whether it is
\* defined
RfcSplit(s) == RfcSplitScheme(s, IndexAny(s, {":", "/", "?", "#"}, 1))

\* 5.2.4 remove_dot_segments
RECURSIVE RfcRemoveDots(_, _)
RfcRemoveDots(input, output) ==
    IF input = "" THEN output
    ELSE IF HasPrefix(input, "../") THEN RfcRemoveDots(SubSeq(input, 4, Len(input)), output)
    ELSE IF HasPrefix(input, "./") THEN RfcRemoveDots(SubSeq(input, 3, Len(input)), output)
    ELSE IF HasPrefix(input, "/./") THEN RfcRemoveDots(SubSeq(input, 3, Len(input)), output)
    ELSE IF input = "/." THEN RfcRemoveDots("/", output)
    ELSE IF HasPrefix(input, "/../") THEN
        RfcRemoveDots(SubSeq(input, 4, Len(input)),
                      SubSeq(output, 1, LastIndex(output, "/") - 1))
    ELSE IF input = "/.." THEN
        RfcRemoveDots("/", SubSeq(output, 1, LastIndex(output, "/") - 1))
    ELSE IF input = "." \/ input = ".." THEN output
    ELSE LET k == IndexFrom(input, "/", 2)
             seg == IF k = 0 THEN input ELSE SubSeq(input, 1, k - 1)
         IN RfcRemoveDots(SubSeq(input, Len(seg) + 1, Len(input)), output \o seg)

\* 5.2.3 merge
RfcMerge(base, refPath) ==
    IF base.hasAuth /\ base.path = "" THEN "/" \o refPath
    ELSE SubSeq(base.path, 1, LastIndex(base.path, "/")) \o refPath

\* 5.3 component recomposition
RfcRecompose(t) ==
    (IF t.hasScheme THEN t.scheme \o ":" ELSE "")
    \o (IF t.hasAuth THEN "//" \o t.authority ELSE "")
    \o t.path
    \o (IF t.hasQuery THEN "?" \o t.query ELSE "")
    \o (IF t.hasFragment THEN "#" \o t.fragment ELSE "")

\* 5.2.2 transform references
RfcTransform(base, ref) ==
    IF ref.hasScheme THEN
        [ref EXCEPT !.path = RfcRemoveDots(ref.path, "")]
    ELSE IF ref.hasAuth THEN
        [ref EXCEPT !.hasScheme = base.hasScheme, !.scheme = base.scheme,
                    !.path = RfcRemoveDots(ref.path, "")]
    ELSE IF ref.path = "" THEN
        [ref EXCEPT !.hasScheme = base.hasScheme, !.scheme = base.scheme,
                    !.hasAuth = base.hasAuth, !.authority = base.authority,
                    !.path = base.path,
                    !.hasQuery = IF ref.hasQuery THEN TRUE ELSE base.hasQuery,
                    !.query = IF ref.hasQuery THEN ref.query ELSE base.query]
    ELSE
        [ref EXCEPT !.hasScheme = base.hasScheme, !.scheme = base.scheme,
                    !.hasAuth = base.hasAuth, !.authority = base.authority,
                    !.path = IF HasPrefix(ref.path, "/")
                             THEN RfcRemoveDots(ref.path, "")
                             ELSE RfcRemoveDots(RfcMerge(base, ref.path), "")]

RfcResolve(B, R) == RfcRecompose(RfcTransform(RfcSplit(B), RfcSplit(R)))

(* ----------------------- the plugin (main.go) -------------------------- *)

\* the namespace the plugin tags network modules with, and the host engine's
\* default namespace for modules on disk and for the stdin entry
HttpUrl == "http-url"
File == "file"

MaxImports == 2

\* import specifiers the host engine's parser may find in a module's text
Specifiers ==
    {"https://example.com/a/b/constants.js", "./util.js", "../c/util.js", "util.js",
     "https://other.com/x.js", "https://other.com/a/../x.js", "http://h.io/m.js#s",
     "//cdn.io/lib.js", "/abs.js", "a b.js", "mailto:a", "%zz", ":foo",
     "https://exa mple.com/x.js"}

\* what a server may answer: status codes and bodies
Statuses == {200, 404}
Bodies == {"", "pi=3"}

NoModule == [path |-> "", namespace |-> ""]

\* api.OnResolveResult{}
EmptyResult == [Path |-> "", Namespace |-> ""]

\* the stdin entry of api.Build: Sourcefile "imaginary-file.js", in the file
\* namespace because a ResolveDir is given
Entry == [path |-> "imaginary-file.js", namespace |-> File]

\* the Filter `^https?://` of the first OnResolve hook
FilterAbsolute(path) == HasPrefix(path, "http://") \/ HasPrefix(path, "https://")

\* the Filter ".*" of the second OnResolve hook and of the OnLoad hook
FilterAny(path) == TRUE

\* a slip: the first hook parses the specifier and returns its serialisation
ResolveAbsoluteReserialised(args) ==
    [result |-> [Path |-> String(Parse(args.Path).url), Namespace |-> HttpUrl],
     err |-> FALSE, text |-> ""]

\* the callback of the first OnResolve hook
ResolveAbsolute(args) ==
    [result |-> [Path |-> args.Path, Namespace |-> HttpUrl], err |-> FALSE, text |-> ""]

\* a slip: the second hook forgets to keep the result in its namespace
ResolveRelativeUntagged(args) ==
    LET base == Parse(args.Importer)
        relative == Parse(args.Path)
    IN
    IF base.err \/ relative.err
    THEN [result |-> EmptyResult, err |-> TRUE, text |-> "parse " \o args.Path]
    ELSE [result |-> [Path |-> String(ResolveReference(base.url, relative.url)),
                      Namespace |-> ""],
          err |-> FALSE, text |-> ""]

\* a slip: the second hook returns the parsed reference without resolving it
ResolveRelativeUnresolved(args) ==
    LET relative == Parse(args.Path) IN
    IF relative.err
    THEN [result |-> EmptyResult, err |-> TRUE, text |-> "parse " \o args.Path]
    ELSE [result |-> [Path |-> String(relative.url), Namespace |-> HttpUrl],
          err |-> FALSE, text |-> ""]

\* a slip: the second hook drops the parse error and passes the specifier on
ResolveRelativeSwallowsError(args) ==
    LET base == Parse(args.Importer)
        relative == Parse(args.Path)
    IN
    IF base.err \/ relative.err
    THEN [result |-> [Path |-> args.Path, Namespace |-> HttpUrl], err |-> FALSE, text |-> ""]
    ELSE [result |-> [Path |-> String(ResolveReference(base.url, relative.url)),
                      Namespace |-> HttpUrl],
          err |-> FALSE, text |-> ""]

\* the callback of the second OnResolve hook
ResolveRelative(args) ==
    LET base == Parse(args.Importer)
        relative == Parse(args.Path)
    IN
    IF base.err THEN [result |-> EmptyResult, err |-> TRUE, text |-> "parse " \o args.Importer]
    ELSE IF relative.err THEN [result |-> EmptyResult, err |-> TRUE, text |-> "parse " \o args.Path]
    ELSE [result |-> [Path |-> String(ResolveReference(base.url, relative.url)),
                      Namespace |-> HttpUrl],
          err |-> FALSE, text |-> ""]

\* a slip: the second hook registered without its Namespace option
HookAppliesInAnyNamespace(h, args) ==
    IF h = 1 THEN FilterAbsolute(args.Path) ELSE FilterAny(args.Path)

\* the OnResolve hooks in registration order: 1 is `^https?://` in any
\* namespace, 2 is ".*" in the http-url namespace
HookApplies(h, args) ==
    IF h = 1 THEN FilterAbsolute(args.Path)
    ELSE args.Namespace = HttpUrl /\ FilterAny(args.Path)

HookCallback(h, args) == IF h = 1 THEN ResolveAbsolute(args) ELSE ResolveRelative(args)

NumHooks == 2

\* the host engine running the registered OnResolve hooks on one import: the
\* hooks that apply run in order until one fails or returns a path
RECURSIVE RunOnResolve(_, _, _)
RunOnResolve(h, args, ran) ==
    IF h > NumHooks THEN
        [ran |-> ran, outcome |-> "declined", result |-> EmptyResult, text |-> ""]
    ELSE IF ~HookApplies(h, args) THEN RunOnResolve(h + 1, args, ran)
    ELSE LET r == HookCallback(h, args) IN
         IF r.err THEN
            [ran |-> ran \cup {h}, outcome |-> "error", result |-> r.result, text |-> r.text]
         ELSE IF r.result.Path = "" THEN RunOnResolve(h + 1, args, ran \cup {h})
         ELSE [ran |-> ran \cup {h}, outcome |-> "resolved", result |-> r.result, text |-> ""]

VARIABLES
    pc,        \* the handler: "idle", "build" (inside api.Build), "done"
    cur,       \* the module whose imports the host engine is resolving
    chain,     \* the namespaces of the modules on the import chain down to cur
    nimports,  \* imports resolved in this build
    resolve,   \* the last import resolved: arguments, hooks run, outcome
    pending,   \* the module resolved and not yet loaded
    fetch,     \* the OnLoad call in progress or last returned
    errors,    \* the build's error messages, result.Errors
    response   \* what the handler wrote to the client

vars == <<pc, cur, chain, nimports, resolve, pending, fetch, errors, response>>

NoResolve ==
    [args |-> [Path |-> "", Importer |-> "", Namespace |-> ""], ran |-> {},
     outcome |-> "none", result |-> EmptyResult, host |-> "none"]

NoFetch ==
    [stage |-> "none", path |-> "", gets |-> 0, stream |-> "none", status |-> 0,
     body |-> "", pos |-> 0, eof |-> FALSE, readErr |-> FALSE,
     hasContents |-> FALSE, contents |-> "", err |-> FALSE]

NoResponse == [status |-> 0, body |-> "", contentType |-> ""]

Init ==
    /\ pc = "idle"
    /\ cur = Entry
    /\ chain = <<File>>
    /\ nimports = 0
    /\ resolve = NoResolve
    /\ pending = NoModule
    /\ fetch = NoFetch
    /\ errors = << >>
    /\ response = NoResponse

\* result.Errors after one more message; the host engine orders the messages
\* of a build, so a new one may land anywhere in the list
AddError(errs, text) ==
    {SubSeq(errs, 1, k) \o <<text>> \o SubSeq(errs, k + 1, Len(errs)) : k \in 0..Len(errs)}

\* the handler up to the call of api.Build: a request starts one build of the
\* entry text
Request ==
    /\ pc \in {"idle", "done"}
    /\ pc' = "build"
    /\ cur' = Entry
    /\ chain' = <<File>>
    /\ nimports' = 0
    /\ resolve' = NoResolve
    /\ pending' = NoModule
    /\ fetch' = NoFetch
    /\ errors' = << >>
    /\ response' = NoResponse

\* the host engine's own resolution of a specifier no hook claimed: a path on
\* disk under ResolveDir
HostResolve(S) == [Path |-> "./src/" \o S, Namespace |-> File]

\* the host engine resolves one import of the module it is scanning: the
\* plugin's hooks first, its own file system resolution when they decline
ResolveImport(S) ==
    /\ pc = "build"
    /\ pending = NoModule
    /\ nimports < MaxImports
    /\ \E args \in {[Path |-> S, Importer |-> cur.path, Namespace |-> cur.namespace]} :
       \E d \in {RunOnResolve(1, args, {})} :
       \/ /\ d.outcome = "resolved"
          /\ resolve' = [args |-> args, ran |-> d.ran, outcome |-> "resolved",
                         result |-> d.result, host |-> "none"]
          /\ pending' = [path |-> d.result.Path, namespace |-> d.result.Namespace]
          /\ errors' = errors
       \/ /\ d.outcome = "error"
          /\ resolve' = [args |-> args, ran |-> d.ran, outcome |-> "error",
                         result |-> d.result, host |-> "none"]
          /\ pending' = NoModule
          /\ errors' \in AddError(errors, d.text)
       \/ /\ d.outcome = "declined"
          /\ \E found \in BOOLEAN :
                /\ resolve' = [args |-> args, ran |-> d.ran, outcome |-> "declined",
                               result |-> d.result,
                               host |-> IF found THEN "resolved" ELSE "failed"]
                /\ pending' = IF found
                              THEN [path |-> HostResolve(S).Path,
                                    namespace |-> HostResolve(S).Namespace]
                              ELSE NoModule
                /\ errors' \in IF found THEN {errors}
                               ELSE AddError(errors, "Could not resolve " \o S)
    /\ nimports' = nimports + 1
    /\ fetch' = NoFetch
    /\ UNCHANGED <<pc, cur, chain, response>>

\* the host engine goes on with a loaded module: it scans the new module's
\* imports next, or stays with the siblings in the module it was scanning
Scan(m, descend) ==
    /\ cur' = IF descend THEN m ELSE cur
    /\ chain' = IF descend THEN Append(chain, m.namespace) ELSE chain

\* the host engine loads a module of the file namespace itself
HostLoad ==
    /\ pc = "build"
    /\ pending # NoModule
    /\ pending.namespace # HttpUrl
    /\ \E descend \in BOOLEAN : Scan(pending, descend)
    /\ pending' = NoModule
    /\ resolve' = NoResolve
    /\ UNCHANGED <<pc, nimports, fetch, errors, response>>

\* whether http.Get can send a request at all: the URL parses, its scheme is
\* one the transport speaks and it names a host
GetCanSend(path) ==
    LET u == Parse(path) IN
    /\ ~u.err
    /\ u.url.Scheme \in {"http", "https"}
    /\ u.url.Host # ""

\* a slip: a failed http.Get is tried once more
GetFailedRetries(f) ==
    [f EXCEPT !.stage = "got", !.gets = f.gets + 1, !.stream = "open"]

\* the OnLoad call after http.Get failed: it returns the error and no content
GetFailed(f) ==
    [f EXCEPT !.stage = "returned", !.err = TRUE, !.hasContents = FALSE, !.contents = ""]

\* the OnLoad call after http.Get answered: the response body is an open stream
GetAnswered(f, status, body) ==
    [f EXCEPT !.stage = "got", !.stream = "open", !.status = status, !.body = body]

\* OnLoad, from its call to the return of http.Get
OnLoadGet ==
    /\ pc = "build"
    /\ pending # NoModule
    /\ pending.namespace = HttpUrl
    /\ FilterAny(pending.path)
    /\ fetch.stage \in {"none", "returned"}
    /\ LET f == [NoFetch EXCEPT !.path = pending.path, !.gets = 1] IN
       \/ /\ fetch' = GetFailed(f)
          /\ errors' \in AddError(errors, "Get " \o pending.path)
          /\ pending' = NoModule
       \/ /\ GetCanSend(pending.path)
          /\ \E status \in Statuses, body \in Bodies :
                fetch' = GetAnswered(f, status, body)
          /\ UNCHANGED <<errors, pending>>
    /\ resolve' = NoResolve
    /\ UNCHANGED <<pc, cur, chain, nimports, response>>

\* io.ReadAll(res.Body): it reads to the end of the body, or fails with part of
\* the body still unread
OnLoadReadAll ==
    /\ pc = "build"
    /\ fetch.stage = "got"
    /\ \/ fetch' = [fetch EXCEPT !.stage = "read", !.pos = Len(fetch.body), !.eof = TRUE]
       \/ \E k \in 0..(Len(fetch.body) - 1) :
            fetch' = [fetch EXCEPT !.stage = "read", !.pos = k, !.readErr = TRUE]
    /\ UNCHANGED <<pc, cur, chain, nimports, resolve, pending, errors, response>>

\* a slip: a response that is not 2xx is turned into a load error
LoadResultChecksStatus(f) ==
    IF f.readErr \/ f.status >= 300
    THEN [f EXCEPT !.err = TRUE, !.hasContents = FALSE, !.contents = ""]
    ELSE [f EXCEPT !.err = FALSE, !.hasContents = TRUE, !.contents = SubSeq(f.body, 1, f.pos)]

\* what OnLoad returns after io.ReadAll
LoadResult(f) ==
    IF f.readErr THEN [f EXCEPT !.err = TRUE, !.hasContents = FALSE, !.contents = ""]
    ELSE [f EXCEPT !.err = FALSE, !.hasContents = TRUE, !.contents = SubSeq(f.body, 1, f.pos)]

\* a slip: the body is closed after the error check instead of by a defer
CloseBodyOnSuccess(f) == IF f.err THEN f ELSE [f EXCEPT !.stream = "closed"]

\* the deferred res.Body.Close()
CloseBody(f) == [f EXCEPT !.stream = "closed"]

\* OnLoad from the return of io.ReadAll to its own return, the deferred Close
\* included, and the host engine taking the result
OnLoadReturn ==
    /\ pc = "build"
    /\ fetch.stage = "read"
    /\ LET f == [CloseBody(LoadResult(fetch)) EXCEPT !.stage = "returned"] IN
       /\ fetch' = f
       /\ IF f.err
          THEN /\ errors' \in AddError(errors, "read " \o f.path)
               /\ UNCHANGED <<cur, chain>>
          ELSE /\ errors' = errors
               /\ \E descend \in BOOLEAN : Scan(pending, descend)
    /\ pending' = NoModule
    /\ UNCHANGED <<pc, nimports, resolve, response>>

StatusOK == 200
StatusInternalServerError == 500

\* the bundled text of a build without errors, result.OutputFiles[0].Contents
Bundle == "export const hello = 'world';"

\* api.Build returns and the handler answers: the first error's text with
\* status 500, or the bundled text with status 200
Respond ==
    /\ pc = "build"
    /\ pending = NoModule
    /\ response' =
        IF Len(errors) > 0
        THEN [status |-> StatusInternalServerError, body |-> errors[1],
              contentType |-> "text/plain; charset=utf-8"]
        ELSE [status |-> StatusOK, body |-> Bundle,
              contentType |-> "text/javascript;charset=UTF-8"]
    /\ pc' = "done"
    /\ UNCHANGED <<cur, chain, nimports, resolve, pending, fetch, errors>>

Next ==
    \/ Request
    \/ \E S \in Specifiers : ResolveImport(S)
    \/ HostLoad
    \/ OnLoadGet
    \/ OnLoadReadAll
    \/ OnLoadReturn
    \/ Respond

Spec == Init /\ [][Next]_vars

(* ------------------------------ properties ---------------------------- *)

ExampleBase == "https://example.com/a/b/constants.js"

\* an import has just been resolved and the module it names is not yet loaded
Resolved == resolve.outcome # "none"

FromNetwork == Resolved /\ resolve.args.Namespace = HttpUrl

\* RFC 3986 section 3.1: the text starts with a scheme and its colon, so it is
\* not a relative reference
IsAbsoluteURL(s) ==
    LET i == Index(s, ":") IN
    /\ i > 1
    /\ IsLower(Ch(s, 1)) \/ IsUpper(Ch(s, 1))
    /\ \A k \in 2..(i - 1) : IsAlnum(Ch(s, k)) \/ Ch(s, k) \in {"+", "-", "."}

\* unreserved characters and single "/" separators only
PlainText(s) ==
    /\ \A k \in 1..Len(s) : IsAlnum(Ch(s, k)) \/ Ch(s, k) \in {"-", ".", "_", "~", "/"}
    /\ \A k \in 1..(Len(s) - 1) : SubSeq(s, k, k + 1) # "//"

PlainRef(R) == R # "" /\ PlainText(R)

PlainBase(B) ==
    \E pre \in {"http://", "https://"} :
        /\ HasPrefix(B, pre)
        /\ Len(B) > Len(pre)
        /\ Ch(B, Len(pre) + 1) # "/"
        /\ PlainText(SubSeq(B, Len(pre) + 1, Len(B)))

\* a message of result.Errors stays in it while the build runs
ErrorsKept ==
    (pc = "build" /\ pc' # "idle") =>
        \A i \in 1..Len(errors) : \E j \in 1..Len(errors') : errors'[j] = errors[i]

\* the handler answered with the first error's text and status 500, and not
\* with bundled text
AnsweredError ==
    /\ response.status = StatusInternalServerError
    /\ response.body = errors[1]
    /\ response.body # Bundle

\* C1: a specifier that begins with http:// or https:// is resolved to itself,
\* tagged http-url, whatever module imports it, itself included.
C1_AbsoluteIsReturnedUnchanged ==
    (Resolved /\ FilterAbsolute(resolve.args.Path)) =>
        /\ resolve.outcome = "resolved"
        /\ resolve.result = [Path |-> resolve.args.Path, Namespace |-> HttpUrl]
        /\ pending = [path |-> resolve.args.Path, namespace |-> HttpUrl]

\* a network module imports its own URL and gets it back
C1_Witness ==
    /\ FromNetwork
    /\ FilterAbsolute(resolve.args.Path)
    /\ resolve.args.Importer = resolve.args.Path
    /\ resolve.result.Path = resolve.args.Path

\* C2 as stated: every specifier met in a network module goes through the
\* second hook and gets an http-url result.
C2_AlwaysRelativeHook ==
    FromNetwork =>
        /\ resolve.ran = {2}
        /\ resolve.outcome = "resolved"
        /\ resolve.result.Namespace = HttpUrl

\* C2 amended: a specifier met in a network module never reaches the host's
\* file system resolution: the first hook takes it when it begins with
\* http:// or https://, the second hook otherwise; a result is tagged
\* http-url, and there is no result only when the second hook fails to parse
\* the specifier; so below a network module every module of an import chain is
\* a network module.
C2_Sticky ==
    /\ FromNetwork =>
        /\ resolve.outcome \in {"resolved", "error"}
        /\ resolve.host = "none"
        /\ resolve.ran = IF FilterAbsolute(resolve.args.Path) THEN {1} ELSE {2}
        /\ resolve.outcome = "resolved" =>
            /\ resolve.result.Namespace = HttpUrl
            /\ pending.namespace = HttpUrl
        /\ resolve.outcome = "error" =>
            /\ resolve.ran = {2}
            /\ Parse(resolve.args.Path).err
            /\ pending = NoModule
    /\ \A i \in 1..Len(chain) : \A j \in i..Len(chain) :
        chain[i] = HttpUrl => chain[j] = HttpUrl

\* a bare path imported by a network module is resolved by the second hook
C2_Witness ==
    /\ FromNetwork
    /\ resolve.args.Path = "util.js"
    /\ resolve.ran = {2}
    /\ resolve.result.Namespace = HttpUrl

\* C3: every http-url result, and so every path OnLoad gets, is an absolute
\* URL: it starts with a scheme and is not a relative reference.
C3_NetworkResultIsAbsolute ==
    /\ (resolve.outcome = "resolved" /\ resolve.result.Namespace = HttpUrl)
            => IsAbsoluteURL(resolve.result.Path)
    /\ pending.namespace = HttpUrl => IsAbsoluteURL(pending.path)
    /\ fetch.stage # "none" => IsAbsoluteURL(fetch.path)
    /\ cur.namespace = HttpUrl => IsAbsoluteURL(cur.path)

\* OnLoad fetches a URL that the second hook made from a relative specifier
C3_Witness ==
    /\ fetch.stage = "got"
    /\ fetch.path = "https://example.com/a/b/util.js"
    /\ cur.path = ExampleBase

\* C4: a specifier that does not begin with http:// or https://, met in a
\* module outside the http-url namespace, runs no hook; the plugin gives no
\* result and the host engine resolves it on the file system.
C4_Declines ==
    (Resolved /\ ~FilterAbsolute(resolve.args.Path) /\ resolve.args.Namespace # HttpUrl) =>
        /\ resolve.ran = {}
        /\ resolve.outcome = "declined"
        /\ resolve.result = EmptyResult
        /\ resolve.host \in {"resolved", "failed"}
        /\ resolve.host = "resolved" =>
            pending = [path |-> HostResolve(resolve.args.Path).Path, namespace |-> File]
        /\ resolve.host = "failed" => pending = NoModule

\* the entry imports a relative path and the host engine finds it on disk
C4_Witness ==
    /\ resolve.outcome = "declined"
    /\ resolve.args.Path = "./util.js"
    /\ resolve.args.Namespace = File
    /\ resolve.host = "resolved"
    /\ pending.namespace = File

\* C5 as stated: the result for a reference met in a network module is the
\* RFC 3986 section 5 resolution of the reference against the importer's URL.
C5_ResultIsRfcResolution ==
    (FromNetwork /\ resolve.outcome = "resolved") =>
        /\ resolve.result.Namespace = HttpUrl
        /\ resolve.result.Path = RfcResolve(resolve.args.Importer, resolve.args.Path)

\* C5 amended: the result is tagged http-url; a reference that begins with
\* http:// or https:// is returned as written, dot segments included; a
\* reference of unreserved characters and single "/" separators, against a
\* base of the same kind, resolves as RFC 3986 section 5 says; and the three
\* examples hold.
C5_Resolution ==
    (FromNetwork /\ resolve.outcome = "resolved") =>
        LET B == resolve.args.Importer
            R == resolve.args.Path
            T == resolve.result.Path
        IN
        /\ resolve.result.Namespace = HttpUrl
        /\ FilterAbsolute(R) => T = R
        /\ (PlainRef(R) /\ PlainBase(B)) => T = RfcResolve(B, R)
        /\ (B = ExampleBase /\ R = "./util.js") => T = "https://example.com/a/b/util.js"
        /\ (B = ExampleBase /\ R = "../c/util.js") => T = "https://example.com/a/c/util.js"
        /\ (B = ExampleBase /\ R = "https://other.com/x.js") => T = "https://other.com/x.js"

\* the parent-directory example is resolved
C5_Witness ==
    /\ FromNetwork
    /\ resolve.args.Importer = ExampleBase
    /\ resolve.args.Path = "../c/util.js"
    /\ resolve.result = [Path |-> "https://example.com/a/c/util.js", Namespace |-> HttpUrl]

\* C6 as stated: against the example base, the bare reference util.js gives
\* https://example.com/a/util.js.
C6_BareDropsDirectory ==
    (FromNetwork /\ resolve.args.Importer = ExampleBase /\ resolve.args.Path = "util.js") =>
        resolve.result = [Path |-> "https://example.com/a/util.js", Namespace |-> HttpUrl]

\* C6 amended: against the example base, the bare reference util.js gives
\* https://example.com/a/b/util.js, tagged http-url: only the base's last
\* segment, constants.js, is dropped.
C6_BareKeepsDirectory ==
    (FromNetwork /\ resolve.args.Importer = ExampleBase /\ resolve.args.Path = "util.js") =>
        /\ resolve.outcome = "resolved"
        /\ resolve.result = [Path |-> "https://example.com/a/b/util.js", Namespace |-> HttpUrl]

\* the example base imports the bare reference
C6_Witness ==
    /\ FromNetwork
    /\ resolve.args.Importer = ExampleBase
    /\ resolve.args.Path = "util.js"
    /\ resolve.outcome = "resolved"

\* C7, the state part: when the second hook cannot parse the importer or the
\* specifier it returns an error and the empty result, no module is queued,
\* the error is among the build's errors; and a build with errors is answered
\* with the first error's text and status 500.
C7_State ==
    /\ (Resolved /\ 2 \in resolve.ran
            /\ (Parse(resolve.args.Importer).err \/ Parse(resolve.args.Path).err)) =>
        /\ resolve.outcome = "error"
        /\ resolve.result = EmptyResult
        /\ pending = NoModule
        /\ \E i \in 1..Len(errors) : errors[i] = "parse " \o resolve.args.Path
    /\ (pc = "done" /\ \E i \in 1..Len(errors) : HasPrefix(errors[i], "parse ")) =>
        AnsweredError

\* C7: a parse failure in the second hook is an error with no result, it is
\* kept until the build ends, and the handler then answers with the first
\* build error's text and status 500 instead of bundled text.
C7_ParseFailureFailsBuild == []C7_State /\ [][ErrorsKept]_vars

\* a build that met an unparsable specifier has been answered with its error
C7_Witness ==
    /\ pc = "done"
    /\ response.status = StatusInternalServerError
    /\ response.body = "parse %zz"

\* a fetch has returned after http.Get failed or io.ReadAll failed
FetchFailed ==
    /\ fetch.stage = "returned"
    /\ fetch.stream = "none" \/ fetch.readErr

\* C8, the state part: a failed fetch returns an error and no content after
\* one http.Get, adds one error to the build, queues nothing; no import adds
\* more than one error; and a build with errors is answered with the first
\* error's text and status 500, never with bundled text.
C8_State ==
    /\ fetch.gets <= 1
    /\ FetchFailed =>
        /\ fetch.err
        /\ ~fetch.hasContents
        /\ fetch.contents = ""
        /\ pending = NoModule
        /\ \E i \in 1..Len(errors) : errors[i] \in {"Get " \o fetch.path, "read " \o fetch.path}
    /\ Len(errors) <= nimports
    /\ (pc = "done" /\ Len(errors) > 0) => AnsweredError
    /\ response.body = Bundle => (pc = "done" /\ errors = << >>)

\* C8: a fetch that fails in transport returns an error and no content, is not
\* tried again, and ends the build with an error: the answer is the first
\* error's text with status 500 and no bundled text.
C8_FetchFailureFailsBuild == []C8_State /\ [][ErrorsKept]_vars

\* a body that broke off part way: nothing of it is returned, the build failed
C8_Witness ==
    /\ pc = "done"
    /\ FetchFailed
    /\ fetch.readErr
    /\ fetch.pos > 0
    /\ response.status = StatusInternalServerError

\* C9: when http.Get answers and the body is read to its end, OnLoad returns
\* the body as its contents and no error, whatever the status code.
C9_BodyReturnedForAnyStatus ==
    (fetch.stage = "returned" /\ fetch.stream # "none" /\ ~fetch.readErr) =>
        /\ ~fetch.err
        /\ fetch.hasContents
        /\ fetch.contents = fetch.body

\* the body of a 404 answer is returned as module text
C9_Witness ==
    /\ fetch.stage = "returned"
    /\ fetch.status = 404
    /\ fetch.hasContents
    /\ fetch.contents = "pi=3"
    /\ ~fetch.err

\* C10 as stated: when OnLoad returns, the response body it acquired has been
\* read to its end and closed.
C10_DrainedAndClosed ==
    (fetch.stage = "returned" /\ fetch.stream # "none") =>
        /\ fetch.eof
        /\ fetch.stream = "closed"

\* C10 amended: when OnLoad returns, the response body it acquired is closed,
\* on the path where reading failed too; it has been read to its end when
\* reading succeeded, not when reading failed; a body is open only inside
\* OnLoad.
C10_ClosedOnEveryPath ==
    /\ (fetch.stage = "returned" /\ fetch.stream # "none") =>
        /\ fetch.stream = "closed"
        /\ ~fetch.readErr => (fetch.eof /\ fetch.pos = Len(fetch.body))
        /\ fetch.readErr => ~fetch.eof
    /\ fetch.stream = "open" => fetch.stage \in {"got", "read"}

\* OnLoad returned after a read that broke off: the body is closed, not drained
C10_Witness ==
    /\ fetch.stage = "returned"
    /\ fetch.readErr
    /\ fetch.pos < Len(fetch.body)
    /\ fetch.stream = "closed"

====
